---------------------------- MODULE Spec2Model ----------------------------
(***************************************************************************)
(* Competitive coevolution of GP-controlled combat robots                  *)
(* (gputils.py, robots.py).                                                *)
(*                                                                         *)
(* Numbers.  Python floats are modelled in fixed point: a length, a        *)
(* sensor value or a tree output v is the integer 100*v ("hundredths").    *)
(* Angles are counted in units of pi/8, so that 2*pi is 16 and a heading   *)
(* is one of 0..15; the sampled initial headings are multiples of pi/8.    *)
(* Health and ammo are plain integers, as in the code.                     *)
(*                                                                         *)
(* Objects.  Individuals are Python objects that lists refer to; the model *)
(* keeps them in a heap (id -> object) and populations are sequences of    *)
(* ids, so that aliasing and cloning are what they are in the code.        *)
(***************************************************************************)
EXTENDS Integers, Sequences, FiniteSets, TLC

\* ------------------------------------------------------------------ bounds
MaxPop == 3          \* largest pop_size explored
MaxGen == 2          \* largest generations explored
MaxWork == 3         \* largest pop_size + generations explored
MaxSteps == 6        \* largest small step budget explored (besides the default)
MaxVar == 1          \* crossovers and mutations applied in one run
MaxActs == 2         \* actions executed in a free sequence of actions
MaxOut == 1300       \* largest |output| given to select_action, in hundredths
MaxWorkers == 2      \* largest number of workers of a pool

\* ------------------------------------------------------- program constants
DefaultArena == 200      \* evaluate_individuals(arena_size=200)
DefaultMaxSteps == 100   \* evaluate_individuals(max_steps=100)
DefaultHealth == 100     \* Robot.__init__(health=100)
DefaultAmmo == 50        \* Robot.__init__(ammo=50)
MoveDist == 5            \* move_dist
ShotDamage == 20         \* opponent.health -= 20
ShotRange == 50          \* sqrt(dx**2 + dy**2) < 50
ReloadAmount == 10       \* self.ammo + 10
AmmoCap == 50            \* min(50, ...)
PlaceMargin == 50        \* random.uniform(50, arena_size-50)
TournSize == 3           \* selTournament(tournsize=3)
NumActions == 6          \* int(abs(output)) % 6
TwoPi == 16              \* 2*math.pi, in units of pi/8
TurnStep == 1            \* math.pi/8, in units of pi/8

\* ------------------------------------------------------------- arithmetic
\* a float v as hundredths
Fx(v) == v * 100

Abs(v) == IF v < 0 THEN 0 - v ELSE v

Min2(a, b) == IF a <= b THEN a ELSE b

Max2(a, b) == IF a >= b THEN a ELSE b

\* Python's a / b on floats, in fixed point, truncating towards zero
FxDiv(a, b) ==
    LET q == (Abs(a) * 100) \div Abs(b)
    IN  IF (a < 0) = (b < 0) THEN q ELSE 0 - q

\* Python's a * b on floats, in fixed point, truncating towards zero
FxMul(a, b) ==
    LET p == (Abs(a) * Abs(b)) \div 100
    IN  IF (a < 0) = (b < 0) THEN p ELSE 0 - p

\* Newton's iteration from a guess x >= sqrt(n), down to floor(sqrt(n))
RECURSIVE SqrtFrom(_, _)
SqrtFrom(n, x) ==
    LET y == (x + n \div x) \div 2
    IN  IF y >= x THEN x ELSE SqrtFrom(n, y)

\* math.sqrt(a**2 + b**2), rounded down to the fixed-point grid
Hypot(a, b) == IF a = 0 /\ b = 0 THEN 0 ELSE SqrtFrom(a * a + b * b, Abs(a) + Abs(b))

\* 100*cos(k*pi/8), k = 0..15
CosTable == <<100, 92, 71, 38, 0, -38, -71, -92, -100, -92, -71, -38, 0, 38, 71, 92>>

\* math.cos / math.sin of a heading, as hundredths
Cos(d) == CosTable[(d % TwoPi) + 1]

Sin(d) == CosTable[((d + 12) % TwoPi) + 1]

\* floor(atan(b/a) / (pi/8)) for a > 0, b >= 0: tan(pi/8) = 0.414, tan(3pi/8) = 2.414
Octant(a, b) ==
    IF 1000 * b < 414 * a THEN 0
    ELSE IF b < a THEN 1
    ELSE IF 1000 * b < 2414 * a THEN 2
    ELSE 3

\* math.atan2(dy, dx) taken modulo 2*pi and rounded down to a multiple of pi/8
Atan2(dy, dx) ==
    IF dx = 0 /\ dy = 0 THEN 0
    ELSE IF dx > 0 /\ dy >= 0 THEN Octant(dx, dy)
    ELSE IF dx <= 0 /\ dy > 0 THEN 4 + Octant(dy, 0 - dx)
    ELSE IF dx < 0 /\ dy <= 0 THEN 8 + Octant(0 - dx, 0 - dy)
    ELSE 12 + Octant(0 - dy, dx)

\* an angle in units of pi/8 as radians in hundredths (pi/8 = 0.3927)
Radians(a) == (a * 3927) \div 100


\* ------------------------------------------------------------------ trees
\* A PrimitiveTree is the list of its nodes in prefix order.  A node is a
\* primitive (name, arity from the primitive set), a renamed argument
\* (a sensor name) or an ephemeral constant whose value was fixed at creation.
Prim(n) == [name |-> n, val |-> 0]

Arg(n) == [name |-> n, val |-> 0]

Const(v) == [name |-> "const", val |-> Fx(v)]

SensorNames == {"enemy_distance", "enemy_direction", "health", "ammo", "wall_distance"}

\* arities registered by create_primitive_set
Arity(n) ==
    IF n.name \in {"add", "sub", "mul", "max", "min", "protected_div"} THEN 2
    ELSE IF n.name = "neg" THEN 1
    ELSE 0

protected_div(a, b) == IF b = 0 THEN Fx(1) ELSE FxDiv(a, b)

ApplyPrimitive(n, a, b) ==
    CASE n.name = "add" -> a + b
      [] n.name = "sub" -> a - b
      [] n.name = "mul" -> FxMul(a, b)
      [] n.name = "neg" -> 0 - a
      [] n.name = "max" -> Max2(a, b)
      [] n.name = "min" -> Min2(a, b)
      [] n.name = "protected_div" -> protected_div(a, b)

\* value of a terminal under the five sensor arguments
TerminalValue(n, s) == IF n.name = "const" THEN n.val ELSE s[n.name]

\* the compiled tree applied to the sensor values: nodes are folded from the
\* last to the first, the stack holding the values of the subtrees to the right
RECURSIVE EvalFrom(_, _, _, _)
EvalFrom(tree, k, stack, s) ==
    IF k = 0 THEN stack[1]
    ELSE LET n == tree[k] IN
         IF Arity(n) = 0 THEN EvalFrom(tree, k - 1, <<TerminalValue(n, s)>> \o stack, s)
         ELSE IF Arity(n) = 1
              THEN EvalFrom(tree, k - 1, <<ApplyPrimitive(n, stack[1], 0)>> \o Tail(stack), s)
         ELSE EvalFrom(tree, k - 1,
                       <<ApplyPrimitive(n, stack[1], stack[2])>> \o Tail(Tail(stack)), s)

\* toolbox.compile(expr=ind)(enemy_distance, enemy_direction, health, ammo, wall_distance)
Compile(tree, s) == EvalFrom(tree, Len(tree), <<>>, s)

\* PrimitiveTree.searchSubtree(begin): last position of the subtree rooted at begin
RECURSIVE SubtreeEnd(_, _, _)
SubtreeEnd(tree, pos, total) ==
    IF total = 0 THEN pos
    ELSE SubtreeEnd(tree, pos + 1, total + Arity(tree[pos + 1]) - 1)

SearchSubtree(tree, begin) == SubtreeEnd(tree, begin, Arity(tree[begin]))

\* tree[begin..end] replaced by sub
Splice(tree, begin, end, sub) ==
    SubSeq(tree, 1, begin - 1) \o sub \o SubSeq(tree, end + 1, Len(tree))

\* ----------------------------------------------------------------- robots
Actions == <<"move_forward", "turn_left", "turn_right", "shoot", "reload", "do_nothing">>

\* variant of select_action: the output is rounded to the nearest integer
\* instead of truncated
select_actionRounded(output) ==
    Actions[(((Abs(output) + 50) \div 100) % NumActions) + 1]

select_action(output) == Actions[((Abs(output) \div 100) % NumActions) + 1]

Robot(x, y, health, ammo, direction) ==
    [x |-> x, y |-> y, health |-> health, ammo |-> ammo, direction |-> direction,
     last_action |-> "None",
     sensors |-> [enemy_distance |-> 0, enemy_direction |-> 0, health |-> Fx(100),
                  ammo |-> Fx(50), wall_distance |-> 0]]

update_sensors(self, opponent, arena_size) ==
    LET dx == opponent.x - self.x
        dy == opponent.y - self.y
    IN  [self EXCEPT !.sensors =
            [enemy_distance |-> Hypot(dx, dy),
             enemy_direction |-> Radians((Atan2(dy, dx) - self.direction) % TwoPi),
             health |-> Fx(self.health),
             ammo |-> Fx(self.ammo),
             wall_distance |-> Min2(Min2(self.x, arena_size - self.x),
                                    Min2(self.y, arena_size - self.y))]]

\* variant of MoveForward: a robot whose step would end outside the arena turns
\* round
MoveForwardBounce(self, arena_size) ==
    LET new_x == self.x + MoveDist * Cos(self.direction)
        new_y == self.y + MoveDist * Sin(self.direction)
    IN  IF 0 <= new_x /\ new_x <= arena_size /\ 0 <= new_y /\ new_y <= arena_size
        THEN [self EXCEPT !.x = new_x, !.y = new_y]
        ELSE [self EXCEPT !.direction = (self.direction + 8) % TwoPi]

\* move_forward: the step is taken only if it ends inside the arena
MoveForward(self, arena_size) ==
    LET new_x == self.x + MoveDist * Cos(self.direction)
        new_y == self.y + MoveDist * Sin(self.direction)
    IN  IF 0 <= new_x /\ new_x <= arena_size /\ 0 <= new_y /\ new_y <= arena_size
        THEN [self EXCEPT !.x = new_x, !.y = new_y]
        ELSE self

\* variant of ShotHits: the bearing of the opponent is not taken relative to
\* the heading of the shooter
ShotHitsAbsolute(self, opponent) ==
    LET dx == opponent.x - self.x
        dy == opponent.y - self.y
        angle_diff == Abs(Atan2(dy, dx) % TwoPi)
    IN  angle_diff < TurnStep /\ dx * dx + dy * dy < Fx(ShotRange) * Fx(ShotRange)

\* the shot hits: angle_diff < pi/8 and distance < 50
ShotHits(self, opponent) ==
    LET dx == opponent.x - self.x
        dy == opponent.y - self.y
        angle_diff == Abs((Atan2(dy, dx) - self.direction) % TwoPi)
    IN  angle_diff < TurnStep /\ dx * dx + dy * dy < Fx(ShotRange) * Fx(ShotRange)

\* variant of Reload: the ten rounds are added without the cap
ReloadUncapped(ammo) == ammo + ReloadAmount

\* reload: self.ammo = min(50, self.ammo + 10)
Reload(ammo) == Min2(AmmoCap, ammo + ReloadAmount)

\* Robot.execute_action: the acting robot and its opponent afterwards
execute_action(self, action, opponent, arena_size) ==
    LET s == [self EXCEPT !.last_action = action] IN
    IF action = "move_forward"
    THEN [self |-> MoveForward(s, arena_size), opponent |-> opponent]
    ELSE IF action = "turn_left"
    THEN [self |-> [s EXCEPT !.direction = (s.direction - TurnStep) % TwoPi],
          opponent |-> opponent]
    ELSE IF action = "turn_right"
    THEN [self |-> [s EXCEPT !.direction = (s.direction + TurnStep) % TwoPi],
          opponent |-> opponent]
    ELSE IF action = "shoot" /\ s.ammo > 0
    THEN [self |-> [s EXCEPT !.ammo = s.ammo - 1],
          opponent |-> IF ShotHits(s, opponent)
                       THEN [opponent EXCEPT !.health = opponent.health - ShotDamage]
                       ELSE opponent]
    ELSE IF action = "reload"
    THEN [self |-> [s EXCEPT !.ammo = Reload(s.ammo)], opponent |-> opponent]
    ELSE [self |-> s, opponent |-> opponent]

\* steps 2 and 3 of a tick: the tree's output on the robot's sensor snapshot
Decide(tree, robot) == select_action(Compile(tree, robot.sensors))

\* ------------------------------------------------------------ one match
\* step 1 of a tick: robot1 senses, then robot2
SenseBoth(m, arena_size) ==
    LET r1 == update_sensors(m.robot1, m.robot2, arena_size)
        r2 == update_sensors(m.robot2, r1, arena_size)
    IN  [robot1 |-> r1, robot2 |-> r2]

\* step 4 of a tick, first statement: robot1.execute_action(action1, robot2, arena_size)
ActFirst(m, action1, arena_size) ==
    LET e == execute_action(m.robot1, action1, m.robot2, arena_size)
    IN  [robot1 |-> e.self, robot2 |-> e.opponent]

\* variant of ActSecond: a robot2 that robot1 has just brought down does not act
ActSecondIfAlive(m, action2, arena_size) ==
    IF m.robot2.health <= 0 THEN m
    ELSE LET e == execute_action(m.robot2, action2, m.robot1, arena_size)
         IN  [robot1 |-> e.opponent, robot2 |-> e.self]

\* step 4 of a tick, second statement: robot2.execute_action(action2, robot1, arena_size)
ActSecond(m, action2, arena_size) ==
    LET e == execute_action(m.robot2, action2, m.robot1, arena_size)
    IN  [robot1 |-> e.opponent, robot2 |-> e.self]

\* step 4 of a tick: robot1 acts, then robot2 acts on what robot1 left
ActBoth(m, action1, action2, arena_size) ==
    ActSecond(ActFirst(m, action1, arena_size), action2, arena_size)

\* one iteration of the battle loop, up to the end-of-battle test
Tick(m, tree1, tree2, arena_size) ==
    LET sensed == SenseBoth(m, arena_size)
    IN  ActBoth(sensed, Decide(tree1, sensed.robot1), Decide(tree2, sensed.robot2),
                arena_size)

\* variant of BattleOver: the battle goes on while a health is exactly 0
BattleOverBelowZero(m) == m.robot1.health < 0 \/ m.robot2.health < 0

\* step 5 of a tick
BattleOver(m) == m.robot1.health <= 0 \/ m.robot2.health <= 0

\* for _ in range(max_steps): ... break
RECURSIVE Battle(_, _, _, _, _)
Battle(m, tree1, tree2, arena_size, steps) ==
    IF steps <= 0 THEN m
    ELSE LET t == Tick(m, tree1, tree2, arena_size)
         IN  IF BattleOver(t) THEN t
             ELSE Battle(t, tree1, tree2, arena_size, steps - 1)

\* variant of Outcome: a side is credited as soon as its opponent is down,
\* whether or not it survived itself
OutcomeOpponentDown(m) ==
    IF m.robot2.health <= 0 THEN 1
    ELSE IF m.robot1.health <= 0 THEN 2
    ELSE 0

\* variant of Outcome: the match is decided on points, the healthier side (the
\* first on a tie) is credited
OutcomeOnPoints(m) == IF m.robot1.health >= m.robot2.health THEN 1 ELSE 2

\* the fitness update after a battle: which side is credited
Outcome(m) ==
    IF m.robot1.health > 0 /\ m.robot2.health <= 0 THEN 1
    ELSE IF m.robot2.health > 0 /\ m.robot1.health <= 0 THEN 2
    ELSE 0


\* ------------------------------------------------------------- individuals
\* creator.Individual: a PrimitiveTree with a fitness; fitness.values is the
\* empty tuple while the fitness is invalid ("Unevaluated")
Individual(tree) == [tree |-> tree, values |-> <<>>]

\* Fitness.valid
Valid(ind) == Len(ind.values) # 0

\* del ind.fitness.values
Invalidate(ind) == [ind EXCEPT !.values = <<>>]

\* trees of depth 3 that gp.genHalfAndHalf(min_=3, max_=5) can return
Shooter == <<Prim("neg"), Prim("neg"), Prim("neg"), Const(3)>>

HealthProg == <<Prim("neg"), Prim("neg"), Prim("neg"), Arg("health")>>

Reloader == <<Prim("neg"), Prim("neg"), Prim("sub"), Const(53), Arg("ammo")>>

InitTrees == {Shooter, HealthProg}

\* populations toolbox.population(n) can return: the two trees alternate
InitPops(n) ==
    {[a \in 1..n |-> IF a % 2 = 1 THEN t.odd ELSE t.even] :
        t \in {[odd |-> Shooter, even |-> HealthProg], [odd |-> HealthProg, even |-> Shooter]}}

\* subtrees of depth 0..2 that gp.genFull(min_=0, max_=2) can return
MutExprs == {<<Const(5)>>}

\* values the two random.uniform(50, arena_size-50) of a Robot(...) can return,
\* as hundredths: samples for x and samples for y
XSamples == {Fx(48), Fx(60), Fx(100)}

YSamples == {Fx(48), Fx(100)}

Uniform(samples, lo, hi) == {v \in samples : Min2(lo, hi) <= v /\ v <= Max2(lo, hi)}

\* values random.uniform(0, 2*math.pi) can return, in units of pi/8
HeadingSamples == {0, 8}

\* headings along the four axes, in units of pi/8
AxisHeadings == {0, 4, 8, 12}

\* values of the parameter arena_size of evaluate_individuals
ArenaSizes == {40, 51, DefaultArena}

\* the headings sampled for the matches of a whole coevolution run
CoevHeadings == {0}

\* the robots a match can start from: Robot(uniform, uniform) twice
Placements(arena_size, headings) ==
    LET lo == Fx(PlaceMargin)
        hi == Fx(arena_size - PlaceMargin)
        R == {Robot(x, y, DefaultHealth, DefaultAmmo, d) :
                  x \in Uniform(XSamples, lo, hi), y \in Uniform(YSamples, lo, hi),
                  d \in headings}
    IN  {[robot1 |-> a, robot2 |-> b] : a \in R, b \in R}

\* ------------------------------------------------------------------ state
VARIABLES
    pc,            \* position in coevolution / evaluate_individuals
    pop_size,      \* coevolution(pop_size=...)
    generations,   \* coevolution(generations=...)
    gen,           \* generations completed
    heap,          \* the live Individual objects, by id
    pop1, pop2,    \* the two populations: lists of ids
    offspring1, offspring2,
    side, k,       \* position in the selection / crossover / mutation loops
    avg_fits1, max_fits1, avg_fits2, max_fits2,
    ev_pop1, ev_pop2, arena_size, max_steps,  \* arguments of evaluate_individuals
    ret,           \* where evaluate_individuals returns to
    i, j,          \* position in the competition loop
    robot1, robot2,
    step, action1, action2,                   \* position in the battle loop
    error,         \* the exception that ended the run, or "none"
    played,        \* history: matches run per (i, j) in this round robin
    wins,          \* history: wins per individual in this round robin
    uneval_read,   \* history: an invalid fitness was read
    n_var,         \* history: crossovers and mutations applied so far
    sampled,       \* the individuals sampled for the tournament last run
    output1, output2,                         \* the programs' outputs of the tick
    pool           \* the workers of a pool that runs the matches of a round robin

vars == <<pc, pop_size, generations, gen, heap, pop1, pop2, offspring1, offspring2,
          side, k, avg_fits1, max_fits1, avg_fits2, max_fits2,
          ev_pop1, ev_pop2, arena_size, max_steps, ret, i, j, robot1, robot2,
          step, action1, action2, error, played, wins, uneval_read,
          n_var, sampled, output1, output2, pool>>

coevVars == <<pop_size, generations, gen, pop1, pop2, offspring1, offspring2,
              side, k, avg_fits1, max_fits1, avg_fits2, max_fits2, n_var,
              sampled>>

evalArgs == <<ev_pop1, ev_pop2, arena_size, max_steps, ret>>

battleVars == <<robot1, robot2, step, action1, action2, output1, output2>>

NoRobot == Robot(0, 0, DefaultHealth, DefaultAmmo, 0)

Range(seq) == {seq[n] : n \in 1..Len(seq)}

\* the n lowest ids that are not in use
RECURSIVE FreshIds(_, _)
FreshIds(used, n) ==
    IF n = 0 THEN <<>>
    ELSE LET id == CHOOSE x \in 1..(Cardinality(used) + 1) : x \notin used /\
                       \A y \in 1..(x - 1) : y \in used
         IN  <<id>> \o FreshIds(used \cup {id}, n - 1)

\* ------------------------------------------------- evaluate_individuals
\* variant of InitialValues: the fitness is left as it arrives
InitialValuesKept(ind) == ind

\* "Fitness initialization for new population": one individual
InitialValues(ind) == IF ~Valid(ind) THEN [ind EXCEPT !.values = <<0>>] ELSE ind

\* the two initialization loops over pop1 and pop2
InitFitnessOf(h, p1, p2) ==
    [id \in DOMAIN h |-> IF id \in Range(p1) \cup Range(p2) THEN InitialValues(h[id])
                         ELSE h[id]]

InitFitness ==
    /\ pc = "init_fitness"
    /\ heap' = InitFitnessOf(heap, ev_pop1, ev_pop2)
    /\ i' = 1
    /\ j' = 1
    /\ played' = [a \in 1..Len(ev_pop1), b \in 1..Len(ev_pop2) |-> 0]
    /\ wins' = [id \in Range(ev_pop1) \cup Range(ev_pop2) |-> 0]
    /\ pc' = IF Len(ev_pop1) > 0 /\ Len(ev_pop2) > 0 THEN "compete" ELSE ret
    /\ UNCHANGED <<pool, coevVars, evalArgs, battleVars, error, uneval_read>>

\* ind.fitness.values = (ind.fitness.values[0] + 1,)
Increment(ind) == [ind EXCEPT !.values = <<ind.values[1] + 1>>]

\* the individual the fitness update reads and writes, 0 when it touches none
Credited(outcome, id1, id2) ==
    IF outcome = 1 THEN id1 ELSE IF outcome = 2 THEN id2 ELSE 0

\* "Fitness update based on battle outcome", applied to the heap
Credit(h, outcome, id1, id2) ==
    LET c == Credited(outcome, id1, id2)
    IN  IF c = 0 \/ ~Valid(h[c]) THEN h ELSE [h EXCEPT ![c] = Increment(h[c])]

\* variant of NextPair: the two populations are walked in step (a zip)
NextPairZip(ii, jj, n2) == <<ii + 1, jj + 1>>

\* for i, ind1 in enumerate(pop1): for j, ind2 in enumerate(pop2): the pair that
\* follows (i, j) when pop2 has n2 individuals
NextPair(ii, jj, n2) == IF jj < n2 THEN <<ii, jj + 1>> ELSE <<ii + 1, 1>>

\* the fitness update for a battle that ended with `outcome` and the step to
\* the next pair of the competition loop
FinishMatch(outcome) ==
    LET id1 == ev_pop1[i]
        id2 == ev_pop2[j]
        c == Credited(outcome, id1, id2)
        bad == c # 0 /\ ~Valid(heap[c])
        last == i = Len(ev_pop1) /\ j = Len(ev_pop2)
    IN  /\ heap' = Credit(heap, outcome, id1, id2)
        /\ wins' = IF c = 0 THEN wins ELSE [wins EXCEPT ![c] = @ + 1]
        /\ played' = [played EXCEPT ![i, j] = @ + 1]
        /\ uneval_read' = (uneval_read \/ bad)
        /\ error' = IF bad THEN "IndexError" ELSE error
        /\ i' = NextPair(i, j, Len(ev_pop2))[1]
        /\ j' = NextPair(i, j, Len(ev_pop2))[2]
        /\ pc' = IF bad THEN "raised" ELSE IF last THEN ret ELSE "compete"

\* one iteration of the competition loop as a single step: robots are placed,
\* the battle is fought to its end and the winner is credited; the robots are
\* locals of the iteration and are gone after it
PlayMatch ==
    /\ pc = "compete"
    /\ \E m0 \in Placements(arena_size, CoevHeadings) :
         \E outcome \in {Outcome(Battle(m0, heap[ev_pop1[i]].tree, heap[ev_pop2[j]].tree,
                                        Fx(arena_size), max_steps))} :
             FinishMatch(outcome)
    /\ UNCHANGED <<pool, coevVars, evalArgs, battleVars>>

\* ------------------------------------------------------ genetic operators
\* variant of FitnessGT: greater or equal, so that of equally fit aspirants
\* the last sampled is kept
FitnessGE(a, b) ==
    IF Len(b.values) = 0 THEN TRUE
    ELSE IF Len(a.values) = 0 THEN FALSE
    ELSE a.values[1] >= b.values[1]

\* Fitness.__gt__: the weighted values compared as tuples, () below every (v,)
FitnessGT(a, b) ==
    IF Len(a.values) = 0 THEN FALSE
    ELSE IF Len(b.values) = 0 THEN TRUE
    ELSE a.values[1] > b.values[1]

\* max(aspirants, key=attrgetter("fitness")): the first of the greatest
RECURSIVE MaxFitness(_, _, _, _)
MaxFitness(h, aspirants, n, best) ==
    IF n > Len(aspirants) THEN best
    ELSE MaxFitness(h, aspirants, n + 1,
                    IF FitnessGT(h[aspirants[n]], h[best]) THEN aspirants[n] ELSE best)

\* one round of tools.selTournament: the aspirants are positions drawn with
\* replacement, the result is a reference to an individual of the population
Tournament(h, pop, draw) ==
    LET aspirants == [n \in 1..TournSize |-> pop[draw[n]]]
    IN  MaxFitness(h, aspirants, 2, aspirants[1])

\* variant of cxOnePoint: the subtree of the second tree is copied into the
\* first, the second tree is left as it was
cxOnePointCopy(t1, t2, index1, index2) ==
    IF Len(t1) < 2 \/ Len(t2) < 2 THEN <<t1, t2>>
    ELSE <<Splice(t1, index1, SearchSubtree(t1, index1),
                  SubSeq(t2, index2, SearchSubtree(t2, index2))), t2>>

\* gp.cxOnePoint on two trees with the crossover points index1, index2 (neither
\* is the root); trees of fewer than two nodes are returned as they are
cxOnePoint(t1, t2, index1, index2) ==
    IF Len(t1) < 2 \/ Len(t2) < 2 THEN <<t1, t2>>
    ELSE LET e1 == SearchSubtree(t1, index1)
             e2 == SearchSubtree(t2, index2)
         IN  <<Splice(t1, index1, e1, SubSeq(t2, index2, e2)),
               Splice(t2, index2, e2, SubSeq(t1, index1, e1))>>

\* crossover points random.choice(range(1, len)) can return for a tree: the
\* last node is the sample
CxPoints(t) == IF Len(t) < 2 THEN {1} ELSE {Len(t)}

\* mutation points random.randrange(len) can return: the last node is the sample
MutPoints(t) == {Len(t)}

\* gp.mutUniform: the subtree at index replaced by a new expression
mutUniform(t, index, expr) == Splice(t, index, SearchSubtree(t, index), expr)

\* toolbox.mate(child1, child2); del child1.fitness.values; del child2.fitness.values
Mate(h, c1, c2, index1, index2) ==
    LET t == cxOnePoint(h[c1].tree, h[c2].tree, index1, index2)
    IN  [h EXCEPT ![c1] = Invalidate([h[c1] EXCEPT !.tree = t[1]]),
                  ![c2] = Invalidate([h[c2] EXCEPT !.tree = t[2]])]

\* toolbox.mutate(mutant); del mutant.fitness.values
Mutate(h, c, index, expr) ==
    [h EXCEPT ![c] = Invalidate([h[c] EXCEPT !.tree = mutUniform(h[c].tree, index, expr)])]

\* [toolbox.clone(ind) for ind in offspring]: deep copies under new ids
CloneAll(h, refs, ids) ==
    [id \in DOMAIN h \cup Range(ids) |->
        IF id \in DOMAIN h THEN h[id]
        ELSE h[refs[CHOOSE n \in 1..Len(ids) : ids[n] = id]]]

\* ------------------------------------------------------------ coevolution
\* the step budget coevolution's matches run with: the default, capped
StepBudget == Min2(DefaultMaxSteps, MaxSteps)

Pop(s) == IF s = 1 THEN pop1 ELSE pop2

Offspring(s) == IF s = 1 THEN offspring1 ELSE offspring2

\* iterations of the crossover (zip of even and odd positions) and mutation loops
LoopCount(phase, len) == IF phase = "mate" THEN len \div 2 ELSE len

LoopOrder == <<[pc |-> "mate", side |-> 1], [pc |-> "mate", side |-> 2],
               [pc |-> "mutate", side |-> 1], [pc |-> "mutate", side |-> 2]>>

\* the first loop from position n on that has an iteration to run
RECURSIVE NextLoop(_, _, _)
NextLoop(n, len1, len2) ==
    IF n > Len(LoopOrder) THEN [pc |-> "evaluate", side |-> 1]
    ELSE IF LoopCount(LoopOrder[n].pc, IF LoopOrder[n].side = 1 THEN len1 ELSE len2) > 0
         THEN LoopOrder[n]
    ELSE NextLoop(n + 1, len1, len2)

LoopIndex(phase, s) == CHOOSE n \in 1..Len(LoopOrder) : LoopOrder[n] = [pc |-> phase, side |-> s]

\* pset, toolbox and the two populations are built; the initial evaluation is called
Setup ==
    /\ pc = "setup"
    /\ LET n == Max2(pop_size, 0) IN
       \E t1 \in InitPops(n), t2 \in InitPops(n) :
         /\ pop1' = [a \in 1..n |-> a]
         /\ pop2' = [a \in 1..n |-> n + a]
         /\ heap' = [id \in 1..(2 * n) |->
                        Individual(IF id <= n THEN t1[id] ELSE t2[id - n])]
    /\ ev_pop1' = pop1'
    /\ ev_pop2' = pop2'
    /\ arena_size' = DefaultArena
    /\ max_steps' = StepBudget
    /\ ret' = "loop"
    /\ pc' = "init_fitness"
    /\ UNCHANGED <<pool, sampled, pop_size, generations, gen, offspring1, offspring2, side, k,
                   avg_fits1, max_fits1, avg_fits2, max_fits2, n_var,
                   i, j, battleVars, error, played, wins, uneval_read>>

\* variant of MoreGenerations: the loop is left early once the best of the first
\* population has won a match (a convergence test)
MoreGenerationsUntilConverged ==
    gen < generations /\ ~(gen >= 1 /\ max_fits1[gen] >= 1)

\* variant of MoreGenerations: the loop test is off by one
MoreGenerationsInclusive == gen <= generations

\* for gen in range(generations): an iteration is left
MoreGenerations == gen < generations

\* for gen in range(generations): the next generation starts, or the result is returned
GenLoop ==
    /\ pc = "loop"
    /\ IF MoreGenerations
       THEN /\ offspring1' = <<>>
            /\ offspring2' = <<>>
            /\ k' = 1
            /\ side' = IF Len(pop1) > 0 THEN 1 ELSE 2
            /\ pc' = IF Len(pop1) > 0 \/ Len(pop2) > 0 THEN "select" ELSE "clone"
       ELSE /\ pc' = "done"
            /\ UNCHANGED <<offspring1, offspring2, k, side>>
    /\ UNCHANGED <<pool, sampled, pop_size, generations, gen, heap, pop1, pop2,
                   avg_fits1, max_fits1, avg_fits2, max_fits2, n_var,
                   evalArgs, i, j, battleVars, error, played, wins, uneval_read>>

\* variant of SelectCount: the count is rounded up to an even number so that
\* every offspring has a crossover partner
SelectCountEven(pop) == Len(pop) + (Len(pop) % 2)

\* toolbox.select(pop, len(pop)): the number of individuals selected
SelectCount(pop) == Len(pop)

\* toolbox.select(pop, len(pop)): one tournament fills the next place
SelectStep ==
    /\ pc = "select"
    /\ \E draw \in [1..TournSize -> 1..Len(Pop(side))] :
         LET chosen == Tournament(heap, Pop(side), draw) IN
         /\ offspring1' = IF side = 1 THEN Append(offspring1, chosen) ELSE offspring1
         /\ offspring2' = IF side = 2 THEN Append(offspring2, chosen) ELSE offspring2
         /\ sampled' = [n \in 1..TournSize |-> Pop(side)[draw[n]]]
         /\ uneval_read' = (uneval_read \/
                            \E n \in 1..TournSize : ~Valid(heap[Pop(side)[draw[n]]]))
    /\ IF k < SelectCount(Pop(side))
       THEN /\ k' = k + 1
            /\ UNCHANGED <<side, pc>>
       ELSE /\ k' = 1
            /\ side' = 2
            /\ pc' = IF side = 1 /\ Len(pop2) > 0 THEN "select" ELSE "clone"
    /\ UNCHANGED <<pool, pop_size, generations, gen, heap, pop1, pop2,
                   avg_fits1, max_fits1, avg_fits2, max_fits2, n_var,
                   evalArgs, i, j, battleVars, error, played, wins>>

\* variant of Clone: the offspring lists keep referring to the selected
\* parents themselves (no copy is made)
CloneShallow ==
    /\ pc = "clone"
    /\ LET nxt == NextLoop(1, Len(offspring1), Len(offspring2))
       IN  /\ pc' = nxt.pc
           /\ side' = nxt.side
           /\ k' = 1
           /\ sampled' = <<>>
    /\ UNCHANGED <<pool, pop_size, generations, gen, heap, pop1, pop2, offspring1,
                   offspring2, avg_fits1, max_fits1, avg_fits2, max_fits2, n_var,
                   evalArgs, i, j, battleVars, error, played, wins, uneval_read>>

\* the two offspring lists are replaced by lists of clones
Clone ==
    /\ pc = "clone"
    /\ LET ids1 == FreshIds(DOMAIN heap, Len(offspring1))
           ids2 == FreshIds(DOMAIN heap \cup Range(ids1), Len(offspring2))
           nxt == NextLoop(1, Len(offspring1), Len(offspring2))
       IN  /\ heap' = CloneAll(CloneAll(heap, offspring1, ids1), offspring2, ids2)
           /\ offspring1' = ids1
           /\ offspring2' = ids2
           /\ pc' = nxt.pc
           /\ side' = nxt.side
           /\ k' = 1
           /\ sampled' = <<>>
    /\ UNCHANGED <<pool, pop_size, generations, gen, pop1, pop2,
                   avg_fits1, max_fits1, avg_fits2, max_fits2, n_var,
                   evalArgs, i, j, battleVars, error, played, wins, uneval_read>>

\* the step from iteration k of a crossover or mutation loop to what follows it
Advance(phase) ==
    IF k < LoopCount(phase, Len(Offspring(side)))
    THEN /\ k' = k + 1
         /\ UNCHANGED <<pc, side>>
    ELSE LET nxt == NextLoop(LoopIndex(phase, side) + 1, Len(offspring1), Len(offspring2))
         IN  /\ k' = 1
             /\ pc' = nxt.pc
             /\ side' = nxt.side

\* one iteration of a crossover loop; random.random() < 0.5 decides
MateStep ==
    /\ pc = "mate"
    /\ LET c1 == Offspring(side)[2 * k - 1]
           c2 == Offspring(side)[2 * k]
       IN  \/ /\ n_var < MaxVar
              /\ \E index1 \in CxPoints(heap[c1].tree), index2 \in CxPoints(heap[c2].tree) :
                   heap' = Mate(heap, c1, c2, index1, index2)
              /\ n_var' = n_var + 1
           \/ UNCHANGED <<heap, n_var>>
    /\ Advance("mate")
    /\ UNCHANGED <<pool, sampled, pop_size, generations, gen, pop1, pop2, offspring1, offspring2,
                   avg_fits1, max_fits1, avg_fits2, max_fits2,
                   evalArgs, i, j, battleVars, error, played, wins, uneval_read>>

\* one iteration of a mutation loop; random.random() < 0.1 decides
MutateStep ==
    /\ pc = "mutate"
    /\ LET c == Offspring(side)[k]
       IN  \/ /\ n_var < MaxVar
              /\ \E index \in MutPoints(heap[c].tree), expr \in MutExprs :
                   heap' = Mutate(heap, c, index, expr)
              /\ n_var' = n_var + 1
           \/ UNCHANGED <<heap, n_var>>
    /\ Advance("mutate")
    /\ UNCHANGED <<pool, sampled, pop_size, generations, gen, pop1, pop2, offspring1, offspring2,
                   avg_fits1, max_fits1, avg_fits2, max_fits2,
                   evalArgs, i, j, battleVars, error, played, wins, uneval_read>>

\* evaluate_individuals(offspring1, offspring2, toolbox) is called
EvaluateOffspring ==
    /\ pc = "evaluate"
    /\ ev_pop1' = offspring1
    /\ ev_pop2' = offspring2
    /\ arena_size' = DefaultArena
    /\ max_steps' = StepBudget
    /\ ret' = "replace"
    /\ pc' = "init_fitness"
    /\ UNCHANGED <<pool, coevVars, heap, i, j, battleVars, error, played, wins,
                   uneval_read>>

\* [ind.fitness.values[0] for ind in pop]
Fits(h, pop) == [n \in 1..Len(pop) |-> h[pop[n]].values[1]]

RECURSIVE Sum(_, _)
Sum(seq, n) == IF n = 0 THEN 0 ELSE seq[n] + Sum(seq, n - 1)

RECURSIVE Maximum(_, _)
Maximum(seq, n) == IF n = 1 THEN seq[1] ELSE Max2(seq[n], Maximum(seq, n - 1))

\* sum(fits) / len(fits), as hundredths
Average(fits) == FxDiv(Fx(Sum(fits, Len(fits))), Fx(Len(fits)))

\* pop[:] = offspring on both sides, then the statistics of the generation
Replace ==
    /\ pc = "replace"
    /\ pop1' = offspring1
    /\ pop2' = offspring2
    /\ heap' = [id \in Range(offspring1) \cup Range(offspring2) |-> heap[id]]
    /\ LET unread == \E id \in Range(offspring1) \cup Range(offspring2) : ~Valid(heap[id])
           empty == Len(offspring1) = 0 \/ Len(offspring2) = 0
       IN  IF unread \/ empty
           THEN /\ error' = IF unread THEN "IndexError" ELSE "ZeroDivisionError"
                /\ uneval_read' = (uneval_read \/ unread)
                /\ pc' = "raised"
                /\ UNCHANGED <<avg_fits1, max_fits1, avg_fits2, max_fits2, gen>>
           ELSE LET fits1 == Fits(heap, offspring1)
                    fits2 == Fits(heap, offspring2)
                IN  /\ avg_fits1' = Append(avg_fits1, Average(fits1))
                    /\ max_fits1' = Append(max_fits1, Maximum(fits1, Len(fits1)))
                    /\ avg_fits2' = Append(avg_fits2, Average(fits2))
                    /\ max_fits2' = Append(max_fits2, Maximum(fits2, Len(fits2)))
                    /\ gen' = gen + 1
                    /\ pc' = "loop"
                    /\ UNCHANGED <<error, uneval_read>>
    /\ UNCHANGED <<pool, sampled, pop_size, generations, offspring1, offspring2, side, k, n_var,
                   evalArgs, i, j, battleVars, played, wins>>

\* coevolution(pop_size, generations) is called
Init ==
    /\ pc = "setup"
    /\ pop_size \in -1..MaxPop
    /\ generations \in -1..MaxGen
    /\ pop_size + generations <= MaxWork
    /\ gen = 0
    /\ heap = <<>>
    /\ pop1 = <<>>
    /\ pop2 = <<>>
    /\ offspring1 = <<>>
    /\ offspring2 = <<>>
    /\ side = 1
    /\ k = 1
    /\ avg_fits1 = <<>>
    /\ max_fits1 = <<>>
    /\ avg_fits2 = <<>>
    /\ max_fits2 = <<>>
    /\ ev_pop1 = <<>>
    /\ ev_pop2 = <<>>
    /\ arena_size = DefaultArena
    /\ max_steps = StepBudget
    /\ ret = "loop"
    /\ i = 1
    /\ j = 1
    /\ robot1 = NoRobot
    /\ robot2 = NoRobot
    /\ step = 0
    /\ action1 = "None"
    /\ action2 = "None"
    /\ error = "none"
    /\ played = <<>>
    /\ wins = <<>>
    /\ uneval_read = FALSE
    /\ n_var = 0
    /\ sampled = <<>>
    /\ output1 = 0
    /\ output2 = 0
    /\ pool = <<>>

Next ==
    \/ Setup
    \/ InitFitness
    \/ PlayMatch
    \/ GenLoop
    \/ SelectStep
    \/ Clone
    \/ MateStep
    \/ MutateStep
    \/ EvaluateOffspring
    \/ Replace

Spec == Init /\ [][Next]_vars

\* ------------------------------------------- one call, step by step
\* evaluate_individuals(pop1, pop2, toolbox, arena_size, max_steps) called on
\* its own, each battle followed statement by statement.

MatchTrees == {Shooter, HealthProg, Reloader}

\* the step budgets explored: the small ones and the default
StepBudgets == 0..MaxSteps \cup {DefaultMaxSteps}

\* fitness.values an argument individual can arrive with
ArgValues == {<<>>, <<1>>}

\* robot1 = Robot(...); robot2 = Robot(...); the programs are compiled
StartBattle ==
    /\ pc = "compete"
    /\ \E m0 \in Placements(arena_size, HeadingSamples) :
         /\ robot1' = m0.robot1
         /\ robot2' = m0.robot2
    /\ step' = 0
    /\ action1' = "None"
    /\ action2' = "None"
    /\ output1' = 0
    /\ output2' = 0
    /\ pc' = IF max_steps > 0 THEN "sense" ELSE "credit"
    /\ UNCHANGED <<pool, coevVars, heap, evalArgs, i, j, error, played, wins, uneval_read>>

\* 1) Update sensors
Sense ==
    /\ pc = "sense"
    /\ \E m \in {SenseBoth([robot1 |-> robot1, robot2 |-> robot2], Fx(arena_size))} :
         /\ robot1' = m.robot1
         /\ robot2' = m.robot2
    /\ pc' = "decide"
    /\ UNCHANGED <<pool, output1, output2, coevVars, heap, evalArgs, i, j, step, action1, action2, error,
                   played, wins, uneval_read>>

\* 2) Get outputs from GP trees, 3) Map output to actions
DecideActions ==
    /\ pc = "decide"
    /\ output1' = Compile(heap[ev_pop1[i]].tree, robot1.sensors)
    /\ output2' = Compile(heap[ev_pop2[j]].tree, robot2.sensors)
    /\ action1' = select_action(output1')
    /\ action2' = select_action(output2')
    /\ pc' = "act1"
    /\ UNCHANGED <<pool, coevVars, heap, evalArgs, i, j, robot1, robot2, step, error,
                   played, wins, uneval_read>>

\* 4) robot1.execute_action(action1, robot2, arena_size)
Act1 ==
    /\ pc = "act1"
    /\ \E m \in {ActFirst([robot1 |-> robot1, robot2 |-> robot2], action1, Fx(arena_size))} :
         /\ robot1' = m.robot1
         /\ robot2' = m.robot2
    /\ pc' = "act2"
    /\ UNCHANGED <<pool, output1, output2, coevVars, heap, evalArgs, i, j, step, action1, action2, error,
                   played, wins, uneval_read>>

\* 4) robot2.execute_action(action2, robot1, arena_size)
Act2 ==
    /\ pc = "act2"
    /\ \E m \in {ActSecond([robot1 |-> robot1, robot2 |-> robot2], action2, Fx(arena_size))} :
         /\ robot1' = m.robot1
         /\ robot2' = m.robot2
    /\ pc' = "check"
    /\ UNCHANGED <<pool, output1, output2, coevVars, heap, evalArgs, i, j, step, action1, action2, error,
                   played, wins, uneval_read>>

\* 5) Check if battle is over: break, or go to the next iteration if one is left
CheckOver ==
    /\ pc = "check"
    /\ IF BattleOver([robot1 |-> robot1, robot2 |-> robot2]) \/ step + 1 >= max_steps
       THEN /\ pc' = "credit"
            /\ step' = step
       ELSE /\ pc' = "sense"
            /\ step' = step + 1
    /\ UNCHANGED <<pool, output1, output2, coevVars, heap, evalArgs, i, j, robot1, robot2, action1, action2,
                   error, played, wins, uneval_read>>

\* Fitness update based on battle outcome
CreditStep ==
    /\ pc = "credit"
    /\ FinishMatch(Outcome([robot1 |-> robot1, robot2 |-> robot2]))
    /\ UNCHANGED <<pool, coevVars, evalArgs, battleVars>>

\* evaluate_individuals is called with one individual on each side
MatchInit ==
    /\ pc = "init_fitness"
    /\ pop_size = 1
    /\ generations = 0
    /\ gen = 0
    /\ \E t1 \in MatchTrees, t2 \in MatchTrees, v \in ArgValues :
         heap = <<[tree |-> t1, values |-> v], [tree |-> t2, values |-> v]>>
    /\ pop1 = <<1>>
    /\ pop2 = <<2>>
    /\ offspring1 = <<>>
    /\ offspring2 = <<>>
    /\ side = 1
    /\ k = 1
    /\ avg_fits1 = <<>>
    /\ max_fits1 = <<>>
    /\ avg_fits2 = <<>>
    /\ max_fits2 = <<>>
    /\ ev_pop1 = <<1>>
    /\ ev_pop2 = <<2>>
    /\ arena_size = DefaultArena
    /\ max_steps \in StepBudgets
    /\ ret = "returned"
    /\ i = 1
    /\ j = 1
    /\ robot1 = NoRobot
    /\ robot2 = NoRobot
    /\ step = 0
    /\ action1 = "None"
    /\ action2 = "None"
    /\ error = "none"
    /\ played = <<>>
    /\ wins = <<>>
    /\ uneval_read = FALSE
    /\ n_var = 0
    /\ sampled = <<>>
    /\ output1 = 0
    /\ output2 = 0
    /\ pool = <<>>

MatchNext ==
    \/ InitFitness
    \/ StartBattle
    \/ Sense
    \/ DecideActions
    \/ Act1
    \/ Act2
    \/ CheckOver
    \/ CreditStep

MatchSpec == MatchInit /\ [][MatchNext]_vars

\* ------------------------------------------- a whole run, step by step
\* coevolution with every battle followed statement by statement, for the
\* populations whose crossover loops have no iteration (at most one
\* individual a side).  The program is sequential: it always takes its next
\* step.

RunInit == Init /\ LoopCount("mate", Max2(pop_size, 0)) = 0

RunNext ==
    \/ Setup
    \/ InitFitness
    \/ StartBattle
    \/ Sense
    \/ DecideActions
    \/ Act1
    \/ Act2
    \/ CheckOver
    \/ CreditStep
    \/ GenLoop
    \/ SelectStep
    \/ Clone
    \/ MutateStep
    \/ EvaluateOffspring
    \/ Replace

RunSpec == RunInit /\ [][RunNext]_vars /\ WF_vars(RunNext)

\* ------------------------------------------------- one selection alone
\* toolbox.select(pop1, len(pop1)) on a population of evaluated individuals

\* fitness values an evaluated individual can hold
FitSamples == {<<0>>, <<1>>, <<2>>}

SelInit ==
    /\ pc = "select"
    /\ pop_size \in 1..MaxPop
    /\ generations = 1
    /\ gen = 0
    /\ heap \in [1..pop_size -> [tree : {Shooter}, values : FitSamples]]
    /\ pop1 = [a \in 1..pop_size |-> a]
    /\ pop2 = <<>>
    /\ offspring1 = <<>>
    /\ offspring2 = <<>>
    /\ side = 1
    /\ k = 1
    /\ avg_fits1 = <<>>
    /\ max_fits1 = <<>>
    /\ avg_fits2 = <<>>
    /\ max_fits2 = <<>>
    /\ ev_pop1 = <<>>
    /\ ev_pop2 = <<>>
    /\ arena_size = DefaultArena
    /\ max_steps = DefaultMaxSteps
    /\ ret = "loop"
    /\ i = 1
    /\ j = 1
    /\ robot1 = NoRobot
    /\ robot2 = NoRobot
    /\ step = 0
    /\ action1 = "None"
    /\ action2 = "None"
    /\ error = "none"
    /\ played = <<>>
    /\ wins = <<>>
    /\ uneval_read = FALSE
    /\ n_var = 0
    /\ sampled = <<>>
    /\ output1 = 0
    /\ output2 = 0
    /\ pool = <<>>

SelNext == SelectStep

SelSpec == SelInit /\ [][SelNext]_vars

\* ------------------------------------------------- one crossover alone
\* toolbox.mate(child1, child2) on a pair of clones, with every pair of
\* crossover points

\* gp.PrimitiveTree: the expressions still open after the first n nodes of a
\* prefix-order list (every node closes one and opens as many as its arity)
RECURSIVE Open(_, _)
Open(tree, n) == IF n = 0 THEN 1 ELSE Open(tree, n - 1) - 1 + Arity(tree[n])

\* gp.PrimitiveTree: the list is one complete expression, every primitive
\* having as many children as its arity
WellFormed(tree) ==
    /\ Len(tree) >= 1
    /\ \A n \in 0..(Len(tree) - 1) : Open(tree, n) >= 1
    /\ Open(tree, Len(tree)) = 0

\* a tree with primitives of two arguments
Weigher ==
    <<Prim("add"), Prim("mul"), Arg("ammo"), Const(2), Prim("neg"), Arg("health")>>

\* trees an offspring can hold: generated ones, and a single terminal (what a
\* mutation at the root can leave)
CxTrees == {Shooter, HealthProg, Reloader, Weigher, <<Const(5)>>}

\* all crossover points: random.choice(range(1, len)), as positions from 1
CxAllPoints(t) == IF Len(t) < 2 THEN {1} ELSE 2..Len(t)

\* if random.random() < 0.5: toolbox.mate(child1, child2); del ...fitness.values
Crossover ==
    /\ pc = "mate"
    /\ n_var < MaxVar
    /\ LET c1 == offspring1[1]
           c2 == offspring1[2]
       IN  \E index1 \in CxAllPoints(heap[c1].tree), index2 \in CxAllPoints(heap[c2].tree) :
               heap' = Mate(heap, c1, c2, index1, index2)
    /\ n_var' = n_var + 1
    /\ UNCHANGED <<pool, sampled, pc, pop_size, generations, gen, pop1, pop2, offspring1,
                   offspring2, side, k, avg_fits1, max_fits1, avg_fits2, max_fits2,
                   evalArgs, i, j, battleVars, error, played, wins, uneval_read>>

CxInit ==
    /\ pc = "mate"
    /\ pop_size = 2
    /\ generations = 1
    /\ gen = 0
    /\ \E t1 \in CxTrees, t2 \in CxTrees :
         heap = <<[tree |-> t1, values |-> <<1>>], [tree |-> t2, values |-> <<1>>]>>
    /\ pop1 = <<>>
    /\ pop2 = <<>>
    /\ offspring1 = <<1, 2>>
    /\ offspring2 = <<>>
    /\ side = 1
    /\ k = 1
    /\ avg_fits1 = <<>>
    /\ max_fits1 = <<>>
    /\ avg_fits2 = <<>>
    /\ max_fits2 = <<>>
    /\ ev_pop1 = <<>>
    /\ ev_pop2 = <<>>
    /\ arena_size = DefaultArena
    /\ max_steps = DefaultMaxSteps
    /\ ret = "loop"
    /\ i = 1
    /\ j = 1
    /\ robot1 = NoRobot
    /\ robot2 = NoRobot
    /\ step = 0
    /\ action1 = "None"
    /\ action2 = "None"
    /\ error = "none"
    /\ played = <<>>
    /\ wins = <<>>
    /\ uneval_read = FALSE
    /\ n_var = 0
    /\ sampled = <<>>
    /\ output1 = 0
    /\ output2 = 0
    /\ pool = <<>>

CxNext == Crossover

CxSpec == CxInit /\ [][CxNext]_vars

\* --------------------------------------------- free sequences of actions
\* Two robots as a match creates them in an arena of one of the sizes
\* ArenaSizes, robot1 with any ammo a robot that has shot 0..50 times holds;
\* then either robot senses and executes any of the six actions, in any
\* order.  side is the robot that acted last.

\* placements of the default arena with the robots exactly 50 apart, the
\* distance at which a shot no longer hits
RangePlacements ==
    {[robot1 |-> Robot(Fx(60), Fx(100), DefaultHealth, DefaultAmmo, d1),
      robot2 |-> Robot(Fx(60 + ShotRange), Fx(100), DefaultHealth, DefaultAmmo, d2)] :
        d1 \in HeadingSamples, d2 \in HeadingSamples}

\* robot1.update_sensors(robot2, arena_size); robot1.execute_action(action, robot2, arena_size)
Execute1 ==
    /\ pc = "act"
    /\ step < MaxActs
    /\ \E action \in Range(Actions) :
         /\ \E e \in {execute_action(update_sensors(robot1, robot2, Fx(arena_size)),
                                     action, robot2, Fx(arena_size))} :
              /\ robot1' = e.self
              /\ robot2' = e.opponent
         /\ action1' = action
    /\ step' = step + 1
    /\ side' = 1
    /\ UNCHANGED <<pool, output1, output2, pc, pop_size, generations, gen, pop1, pop2,
                   offspring1, offspring2, k, avg_fits1, max_fits1, avg_fits2,
                   max_fits2, n_var, sampled, heap, evalArgs, i, j, action2, error,
                   played, wins, uneval_read>>

\* robot2.update_sensors(robot1, arena_size); robot2.execute_action(action, robot1, arena_size)
Execute2 ==
    /\ pc = "act"
    /\ step < MaxActs
    /\ \E action \in Range(Actions) :
         /\ \E e \in {execute_action(update_sensors(robot2, robot1, Fx(arena_size)),
                                     action, robot1, Fx(arena_size))} :
              /\ robot2' = e.self
              /\ robot1' = e.opponent
         /\ action2' = action
    /\ step' = step + 1
    /\ side' = 2
    /\ UNCHANGED <<pool, output1, output2, pc, pop_size, generations, gen, pop1, pop2,
                   offspring1, offspring2, k, avg_fits1, max_fits1, avg_fits2,
                   max_fits2, n_var, sampled, heap, evalArgs, i, j, action1, error,
                   played, wins, uneval_read>>

RobotInit ==
    /\ pc = "act"
    /\ pop_size = 0
    /\ generations = 0
    /\ gen = 0
    /\ heap = <<>>
    /\ pop1 = <<>>
    /\ pop2 = <<>>
    /\ offspring1 = <<>>
    /\ offspring2 = <<>>
    /\ side = 1
    /\ k = 1
    /\ avg_fits1 = <<>>
    /\ max_fits1 = <<>>
    /\ avg_fits2 = <<>>
    /\ max_fits2 = <<>>
    /\ ev_pop1 = <<>>
    /\ ev_pop2 = <<>>
    /\ arena_size \in ArenaSizes
    /\ max_steps = DefaultMaxSteps
    /\ ret = "returned"
    /\ i = 1
    /\ j = 1
    /\ \E m0 \in IF arena_size = DefaultArena
                  THEN Placements(arena_size, HeadingSamples) \cup RangePlacements
                  ELSE Placements(arena_size, AxisHeadings),
          shots \in IF arena_size = DefaultArena THEN 0..DefaultAmmo ELSE {0} :
         /\ robot1 = [m0.robot1 EXCEPT !.ammo = DefaultAmmo - shots]
         /\ robot2 = m0.robot2
    /\ step = 0
    /\ action1 = "None"
    /\ action2 = "None"
    /\ error = "none"
    /\ played = <<>>
    /\ wins = <<>>
    /\ uneval_read = FALSE
    /\ n_var = 0
    /\ sampled = <<>>
    /\ output1 = 0
    /\ output2 = 0
    /\ pool = <<>>

RobotNext ==
    \/ Execute1
    \/ Execute2

RobotSpec == RobotInit /\ [][RobotNext]_vars

\* -------------------------------------------------- select_action alone
\* select_action(output) on every output of -MaxOut..MaxOut hundredths, and on
\* its opposite

SelectAction ==
    /\ pc = "map"
    /\ action1' = select_action(output1)
    /\ action2' = select_action(output2)
    /\ pc' = "mapped"
    /\ UNCHANGED <<pool, output1, output2, coevVars, heap, evalArgs, i, j, robot1, robot2,
                   step, error, played, wins, uneval_read>>

ActionInit ==
    /\ pc = "map"
    /\ pop_size = 0
    /\ generations = 0
    /\ gen = 0
    /\ heap = <<>>
    /\ pop1 = <<>>
    /\ pop2 = <<>>
    /\ offspring1 = <<>>
    /\ offspring2 = <<>>
    /\ side = 1
    /\ k = 1
    /\ avg_fits1 = <<>>
    /\ max_fits1 = <<>>
    /\ avg_fits2 = <<>>
    /\ max_fits2 = <<>>
    /\ ev_pop1 = <<>>
    /\ ev_pop2 = <<>>
    /\ arena_size = DefaultArena
    /\ max_steps = DefaultMaxSteps
    /\ ret = "returned"
    /\ i = 1
    /\ j = 1
    /\ robot1 = NoRobot
    /\ robot2 = NoRobot
    /\ step = 0
    /\ action1 = "None"
    /\ action2 = "None"
    /\ error = "none"
    /\ played = <<>>
    /\ wins = <<>>
    /\ uneval_read = FALSE
    /\ n_var = 0
    /\ sampled = <<>>
    /\ output1 \in (0 - MaxOut)..MaxOut
    /\ output2 = 0 - output1
    /\ pool = <<>>

ActionNext == SelectAction

ActionSpec == ActionInit /\ [][ActionNext]_vars

\* ------------------------------------------ a round robin on a worker pool
\* The iterations of the competition loop of evaluate_individuals handed out,
\* in the order of the loop, to the workers of a pool of threads.  An iteration
\* creates its robots and fights its battle on locals of the worker; its
\* fitness update ind.fitness.values = (ind.fitness.values[0] + 1,) is a read
\* of the individual's fitness followed by a write, and the workers are
\* interleaved between the statements.

IdleWorker == [phase |-> "idle", credited |-> 0, seen |-> 0]

\* a worker takes the next pair of the loop, places the robots and fights the
\* battle
TakeMatch ==
    /\ pc = "compete"
    /\ i <= Len(ev_pop1)
    /\ \E w \in DOMAIN pool :
         /\ pool[w].phase = "idle"
         /\ \E m0 \in Placements(arena_size, CoevHeadings) :
              \E outcome \in {Outcome(Battle(m0, heap[ev_pop1[i]].tree,
                                             heap[ev_pop2[j]].tree,
                                             Fx(arena_size), max_steps))} :
                LET c == Credited(outcome, ev_pop1[i], ev_pop2[j])
                IN  /\ pool' = [pool EXCEPT ![w] =
                                   IF c = 0 THEN IdleWorker
                                   ELSE [phase |-> "fought", credited |-> c, seen |-> 0]]
                    /\ wins' = IF c = 0 THEN wins ELSE [wins EXCEPT ![c] = @ + 1]
    /\ played' = [played EXCEPT ![i, j] = @ + 1]
    /\ i' = NextPair(i, j, Len(ev_pop2))[1]
    /\ j' = NextPair(i, j, Len(ev_pop2))[2]
    /\ UNCHANGED <<pc, heap, coevVars, evalArgs, battleVars, error, uneval_read>>

\* the right-hand side of the fitness update: ind.fitness.values[0] + 1
ReadFitness ==
    /\ pc = "compete"
    /\ \E w \in DOMAIN pool :
         /\ pool[w].phase = "fought"
         /\ pool' = [pool EXCEPT ![w].phase = "read",
                                 ![w].seen = heap[pool[w].credited].values[1]]
    /\ UNCHANGED <<pc, heap, coevVars, evalArgs, i, j, battleVars, error, played, wins,
                   uneval_read>>

\* the assignment of the fitness update: ind.fitness.values = (... ,)
WriteFitness ==
    /\ pc = "compete"
    /\ \E w \in DOMAIN pool :
         /\ pool[w].phase = "read"
         /\ heap' = [heap EXCEPT ![pool[w].credited].values = <<pool[w].seen + 1>>]
         /\ pool' = [pool EXCEPT ![w] = IdleWorker]
    /\ UNCHANGED <<pc, coevVars, evalArgs, i, j, battleVars, error, played, wins,
                   uneval_read>>

\* every pair has been played and every worker is done: the call returns
JoinPool ==
    /\ pc = "compete"
    /\ i > Len(ev_pop1)
    /\ \A w \in DOMAIN pool : pool[w].phase = "idle"
    /\ pc' = ret
    /\ UNCHANGED <<pool, heap, coevVars, evalArgs, i, j, battleVars, error, played, wins,
                   uneval_read>>

\* the state of evaluate_individuals after its fitness initialization, with a
\* pool of 1..MaxWorkers workers
PoolInit ==
    /\ pc = "compete"
    /\ pop_size = 2
    /\ generations = 0
    /\ gen = 0
    /\ \E trees1 \in InitPops(pop_size), trees2 \in InitPops(pop_size) :
         heap = [id \in 1..(2 * pop_size) |->
                    [tree |-> IF id <= pop_size THEN trees1[id] ELSE trees2[id - pop_size],
                     values |-> <<0>>]]
    /\ pop1 = [n \in 1..pop_size |-> n]
    /\ pop2 = [n \in 1..pop_size |-> pop_size + n]
    /\ offspring1 = <<>>
    /\ offspring2 = <<>>
    /\ side = 1
    /\ k = 1
    /\ avg_fits1 = <<>>
    /\ max_fits1 = <<>>
    /\ avg_fits2 = <<>>
    /\ max_fits2 = <<>>
    /\ ev_pop1 = pop1
    /\ ev_pop2 = pop2
    /\ arena_size = DefaultArena
    /\ max_steps = StepBudget
    /\ ret = "returned"
    /\ i = 1
    /\ j = 1
    /\ robot1 = NoRobot
    /\ robot2 = NoRobot
    /\ step = 0
    /\ action1 = "None"
    /\ action2 = "None"
    /\ error = "none"
    /\ played = [a \in 1..Len(ev_pop1), b \in 1..Len(ev_pop2) |-> 0]
    /\ wins = [id \in Range(ev_pop1) \cup Range(ev_pop2) |-> 0]
    /\ uneval_read = FALSE
    /\ n_var = 0
    /\ sampled = <<>>
    /\ output1 = 0
    /\ output2 = 0
    /\ \E workers \in 1..MaxWorkers : pool = [w \in 1..workers |-> IdleWorker]

PoolNext ==
    \/ TakeMatch
    \/ ReadFitness
    \/ WriteFitness
    \/ JoinPool

PoolSpec == PoolInit /\ [][PoolNext]_vars

\* ================================================================ claims

\* ---- C1
\* C1: after each generation step, the fitness of every individual of the new
\* populations equals the number of round-robin matches it won in that
\* generation, an integer between 0 and N (N the size of the opposing
\* population).  Statement of the claim; the program does not satisfy it.
C1_FitnessIsWinsOfGeneration ==
    (pc = "loop" /\ gen > 0) =>
        /\ \A id \in Range(pop1) : /\ heap[id].values = <<wins[id]>>
                                   /\ heap[id].values[1] \in 0..Len(pop2)
        /\ \A id \in Range(pop2) : /\ heap[id].values = <<wins[id]>>
                                   /\ heap[id].values[1] \in 0..Len(pop1)

\* ---- C2
\* C2: the fitness update of a match credits exactly +1 to side 1 iff robot1
\* ended with health > 0 and robot2 with health <= 0, exactly +1 to side 2 iff
\* the reverse holds, and nothing to either side otherwise (both alive when the
\* step budget ran out, or both dead); never both sides, never more than 1.
C2_CreditRule ==
    [][pc = "credit" =>
         LET a == ev_pop1[i]
             b == ev_pop2[j]
             w1 == robot1.health > 0 /\ robot2.health <= 0
             w2 == robot2.health > 0 /\ robot1.health <= 0
         IN  /\ heap'[a].values = <<heap[a].values[1] + (IF w1 THEN 1 ELSE 0)>>
             /\ heap'[b].values = <<heap[b].values[1] + (IF w2 THEN 1 ELSE 0)>>
             /\ ~(heap'[a].values # heap[a].values /\ heap'[b].values # heap[b].values)
             /\ \A id \in DOMAIN heap \ {a, b} : heap'[id] = heap[id]]_vars

\* a match in which both robots went down has been scored: nobody was credited
C2_Witness ==
    /\ pc = "returned"
    /\ robot1.health <= 0
    /\ robot2.health <= 0
    /\ heap[1].values = <<1>>
    /\ heap[2].values = <<1>>

\* ---- C3
\* C3: one call of evaluate_individuals runs exactly one match for every
\* ordered pair (a, b), a a position of the first population and b one of the
\* second: no pair is played twice, and when the call returns every pair has
\* been played once, positions holding copies of one parent included.
C3_OneMatchPerPair ==
    /\ \A p \in DOMAIN played : played[p] \in {0, 1}
    /\ pc \in {"loop", "replace"} =>
           /\ DOMAIN played = (1..Len(ev_pop1)) \X (1..Len(ev_pop2))
           /\ \A p \in DOMAIN played : played[p] = 1

\* a round robin over offspring pools has returned, the first pool holding two
\* untouched clones of one parent
C3_Witness ==
    /\ pc = "replace"
    /\ n_var = 0
    /\ Len(ev_pop1) = 2
    /\ Len(ev_pop2) = 2
    /\ heap[ev_pop1[1]].tree = heap[ev_pop1[2]].tree

\* ---- C4
\* C4: no fitness value is read while the fitness is invalid (Unevaluated):
\* neither by the fitness update of a match, nor by tournament selection, nor
\* by the statistics; the run never ends with the IndexError such a read raises.
C4_NoUnevaluatedRead == ~uneval_read /\ error # "IndexError"

\* the second generation has selected from a population whose member was
\* mutated (fitness deleted) and re-evaluated in the first
C4_Witness ==
    /\ pc = "clone"
    /\ gen = 1
    /\ n_var = 1
    /\ ~uneval_read

\* ---- C5
\* C5: a robot's ammo is an integer in 0..50 in every reachable state: from
\* any ammo a robot can hold, no sequence of the six actions makes it negative
\* (shoot at ammo 0 leaves it at 0) or lifts it above 50 (reload is capped).
C5_AmmoRange == robot1.ammo \in 0..50 /\ robot2.ammo \in 0..50

\* robot1 sensed ammo 0 and its shoot has been executed
C5_Witness ==
    /\ pc = "act"
    /\ action1 = "shoot"
    /\ robot1.sensors.ammo = 0
    /\ robot1.last_action = "shoot"
    /\ robot1.ammo = 0

\* ---- C6
\* C6: within a tick both sensor snapshots are taken from the state before
\* either action, both actions are decided from those snapshots, robot1's
\* action is applied before robot2's (robot2's action works on what robot1
\* left, and is applied even when robot1 has just brought robot2 down), and
\* the end-of-battle test runs only after both actions.
C6_TickOrder ==
    [][/\ pc = "sense" =>
             /\ pc' = "decide"
             /\ robot1' = [robot1 EXCEPT !.sensors =
                              update_sensors(robot1, robot2, Fx(arena_size)).sensors]
             /\ robot2' = [robot2 EXCEPT !.sensors =
                              update_sensors(robot2, robot1, Fx(arena_size)).sensors]
       /\ pc = "decide" =>
             /\ pc' = "act1"
             /\ action1' = Decide(heap[ev_pop1[i]].tree, robot1)
             /\ action2' = Decide(heap[ev_pop2[j]].tree, robot2)
             /\ robot1' = robot1
             /\ robot2' = robot2
       /\ pc = "act1" =>
             /\ pc' = "act2"
             /\ action2' = action2
             /\ [self |-> robot1', opponent |-> robot2'] =
                    execute_action(robot1, action1, robot2, Fx(arena_size))
       /\ pc = "act2" =>
             /\ pc' = "check"
             /\ robot2'.last_action = action2
             /\ [self |-> robot2', opponent |-> robot1'] =
                    execute_action(robot2, action2, robot1, Fx(arena_size))
       /\ pc = "check" =>
             /\ robot1' = robot1
             /\ robot2' = robot2
             /\ pc' = IF robot1.health <= 0 \/ robot2.health <= 0 \/ step + 1 >= max_steps
                      THEN "credit" ELSE "sense"
       /\ pc' = "credit" => pc \in {"check", "compete"}]_vars

\* the tick in which robot1's shot brought robot2 down: robot2's shot was still
\* applied and brought robot1 down too
C6_Witness ==
    /\ pc = "check"
    /\ action1 = "shoot"
    /\ action2 = "shoot"
    /\ robot2.last_action = "shoot"
    /\ robot2.health <= 0
    /\ robot1.health <= 0

\* ---- C7
\* C7: a non-positive pop_size or a non-positive generations makes the run
\* raise an error before any population is built and before any match is
\* played.  Statement of the claim; the program does not satisfy it.
C7_FailFast ==
    (pop_size <= 0 \/ generations <= 0) =>
        /\ pc \in {"setup", "raised"}
        /\ heap = <<>>
        /\ played = <<>>

\* ---- C8
\* C8: with a step budget of 0 no tick is executed and the match leaves the
\* fitness of both participants as it was.
C8_ZeroBudget ==
    [][max_steps = 0 =>
          /\ pc = "compete" => pc' = "credit"
          /\ pc \in {"compete", "credit"} =>
                 \A id \in DOMAIN heap : heap'[id].values = heap[id].values]_vars

\* a match with budget 0 between robots placed apart has been scored
C8_Witness ==
    /\ pc = "returned"
    /\ max_steps = 0
    /\ robot1.x # robot2.x
    /\ robot1.last_action = "None"
    /\ heap[1].values = <<1>>
    /\ heap[2].values = <<1>>

\* ---- C9
\* C9: with 0 generations coevolution returns the two populations it built (the
\* same individuals in the same order, their trees untouched), each fitness
\* being the individual's wins in the initial round robin, and the four
\* statistics lists empty.
C9_ZeroGenerations ==
    /\ [](pc = "done" /\ generations = 0 =>
            LET n == Max2(pop_size, 0) IN
            /\ pop1 = [a \in 1..n |-> a]
            /\ pop2 = [a \in 1..n |-> n + a]
            /\ DOMAIN heap = 1..(2 * n)
            /\ [a \in 1..n |-> heap[pop1[a]].tree] \in InitPops(n)
            /\ [a \in 1..n |-> heap[pop2[a]].tree] \in InitPops(n)
            /\ \A id \in DOMAIN heap : /\ heap[id].values = <<wins[id]>>
                                       /\ wins[id] \in 0..n
            /\ avg_fits1 = <<>> /\ max_fits1 = <<>>
            /\ avg_fits2 = <<>> /\ max_fits2 = <<>>)
    /\ [][generations = 0 /\ pc # "setup" =>
            /\ pop1' = pop1
            /\ pop2' = pop2
            /\ DOMAIN heap' = DOMAIN heap
            /\ \A id \in DOMAIN heap : heap'[id].tree = heap[id].tree]_vars

\* a run with 0 generations over populations of two has returned, and the
\* initial round robin had a double winner
C9_Witness ==
    /\ pc = "done"
    /\ generations = 0
    /\ pop_size = 2
    /\ heap[1].values = <<2>>

\* ---- C10
\* C10: once built, both populations keep the size pop_size in every
\* generation, for even and for odd sizes: selection returns as many
\* individuals as the source population has, crossover and mutation neither
\* add nor remove individuals, and replacement swaps in a pool of equal size.
C10_PopulationSize ==
    LET n == Max2(pop_size, 0)
        pooled == \/ pc \in {"clone", "mate", "mutate", "evaluate", "replace"}
                  \/ pc \in {"init_fitness", "compete"} /\ ret = "replace"
    IN  pc # "setup" =>
            /\ Len(pop1) = n
            /\ Len(pop2) = n
            /\ pooled => Len(offspring1) = n /\ Len(offspring2) = n

\* two generations over populations of the odd size 1 are done, one of them
\* with a mutation
C10_Witness ==
    /\ pc = "done"
    /\ pop_size = 1
    /\ gen = 2
    /\ n_var = 1
    /\ Len(pop1) = 1
    /\ Len(pop2) = 1


\* ---- C11
\* C11: a run over non-empty populations with G >= 0 generations always
\* terminates, returning after exactly G generation steps whatever the fitness
\* values are; generations are completed one at a time, each appending one
\* entry to each of the four statistics series, so that the returned series
\* have exactly G entries in generation order; and every battle ends within
\* its step budget.
C11_TerminatesAfterG ==
    /\ (pop_size >= 1 /\ generations >= 0) => <>(pc = "done")
    /\ [](pc = "done" /\ pop_size >= 1 /\ generations >= 0 =>
             /\ gen = generations
             /\ Len(avg_fits1) = generations /\ Len(max_fits1) = generations
             /\ Len(avg_fits2) = generations /\ Len(max_fits2) = generations)
    /\ [](pc \in {"sense", "decide", "act1", "act2", "check"} => step < max_steps)
    /\ [][/\ gen' \in {gen, gen + 1}
          /\ \A series \in {<<avg_fits1, avg_fits1'>>, <<max_fits1, max_fits1'>>,
                             <<avg_fits2, avg_fits2'>>, <<max_fits2, max_fits2'>>} :
                /\ Len(series[1]) = gen
                /\ Len(series[2]) = gen'
                /\ SubSeq(series[2], 1, gen) = series[1]]_vars

\* a run of two generations has returned although the best of the first
\* population had already won in the first generation
C11_Witness ==
    /\ pc = "done"
    /\ pop_size = 1
    /\ generations = 2
    /\ gen = 2
    /\ Len(max_fits1) = 2
    /\ max_fits1[1] >= 1

\* ---- C12
\* C12: each tournament samples three individuals of the population (with
\* replacement) and appends to the offspring pool the sampled individual of
\* maximum fitness, the first sampled among equally fit ones, so that no
\* sampled individual is fitter than the one selected; selection of a
\* population ends when exactly len(population) individuals are selected.
C12_TournamentMax ==
    [][pc = "select" =>
         LET fit(n) == heap[sampled'[n]].values[1]
             best == CHOOSE n \in 1..TournSize :
                         /\ \A m \in 1..TournSize : fit(m) <= fit(n)
                         /\ \A m \in 1..(n - 1) : fit(m) < fit(n)
             before == IF side = 1 THEN offspring1 ELSE offspring2
             after == IF side = 1 THEN offspring1' ELSE offspring2'
         IN  /\ Len(sampled') = TournSize
             /\ \A n \in 1..TournSize : sampled'[n] \in Range(Pop(side))
             /\ after = Append(before, sampled'[best])
             /\ \A n \in 1..TournSize : fit(n) <= heap[after[Len(after)]].values[1]
             /\ Len(before) < Len(Pop(side))
             /\ (pc' # "select" \/ side' # side) <=> Len(after) = Len(Pop(side))]_vars

\* a tournament of three different individuals, the first two equally fit and
\* fitter than the third: the first sampled was selected
C12_Witness ==
    /\ sampled = <<2, 1, 3>>
    /\ heap[1].values = <<2>>
    /\ heap[2].values = <<2>>
    /\ heap[3].values = <<1>>
    /\ offspring1 # <<>>
    /\ offspring1[Len(offspring1)] = 2

\* ---- C13
\* C13: one-point crossover conserves the total node count of the pair, for
\* every pair of parent trees and every pair of crossover points, and leaves
\* both offspring complete expressions in which every primitive has as many
\* children as its arity.
C13_CrossoverConserves ==
    [][pc = "mate" =>
         LET c1 == offspring1[1]
             c2 == offspring1[2]
         IN  /\ Len(heap'[c1].tree) + Len(heap'[c2].tree) =
                    Len(heap[c1].tree) + Len(heap[c2].tree)
             /\ WellFormed(heap[c1].tree) /\ WellFormed(heap[c2].tree)
             /\ WellFormed(heap'[c1].tree) /\ WellFormed(heap'[c2].tree)]_vars

\* a crossover has exchanged subtrees of different sizes: the first offspring
\* grew from 4 to 6 nodes, the second shrank from 6 to 4
C13_Witness ==
    /\ pc = "mate"
    /\ n_var = 1
    /\ Len(heap[1].tree) = 6
    /\ Len(heap[2].tree) = 4
    /\ heap[1].tree[1] = Prim("neg")
    /\ heap[2].tree[1] = Prim("add")
    /\ heap[1].values = <<>>

\* ---- C14
\* C14: select_action is total over finite outputs: the action is the one at
\* index floor(|output|) mod 6, an index of 0..5, of the action list; an output
\* and its opposite give the same action; 7.9 gives turn_left and -6.0 gives
\* move_forward.
C14_SelectActionTotal ==
    pc = "mapped" =>
        LET magnitude == IF output1 < 0 THEN 0 - output1 ELSE output1
            floor == CHOOSE n \in 0..magnitude :
                         n * 100 <= magnitude /\ magnitude < (n + 1) * 100
            index == CHOOSE r \in 0..5 : \E q \in 0..floor : floor = 6 * q + r
            names == [n \in 0..5 |->
                        CASE n = 0 -> "move_forward"
                          [] n = 1 -> "turn_left"
                          [] n = 2 -> "turn_right"
                          [] n = 3 -> "shoot"
                          [] n = 4 -> "reload"
                          [] n = 5 -> "do_nothing"]
        IN  /\ action1 = names[index]
            /\ action2 = action1
            /\ output1 = Fx(79) \div 10 => action1 = "turn_left"
            /\ output1 = 0 - Fx(6) => action1 = "move_forward"

\* select_action has been applied to 7.9 and to -7.9
C14_Witness ==
    /\ pc = "mapped"
    /\ output1 = 790
    /\ output2 = 0 - 790
    /\ action1 = "turn_left"

\* ---- C15
\* C15: in every state of a match both robots are within [0, arena_size] on
\* both axes, for every arena_size given to evaluate_individuals.
C15_InsideArena ==
    \A r \in {robot1, robot2} :
        /\ 0 <= r.x /\ r.x <= Fx(arena_size)
        /\ 0 <= r.y /\ r.y <= Fx(arena_size)

\* the same for the arenas of side 50 and more only
C15_InsideLargeArena == arena_size >= PlaceMargin => C15_InsideArena

\* move_forward either takes its whole step of 5 along the heading or leaves
\* the position as it was; no other action moves a robot
C15_AllOrNothing ==
    [][\A r \in {<<robot1, robot1'>>, <<robot2, robot2'>>} :
          \/ r[2].x = r[1].x /\ r[2].y = r[1].y
          \/ /\ r[2].last_action = "move_forward"
             /\ r[2].x = r[1].x + MoveDist * Cos(r[1].direction)
             /\ r[2].y = r[1].y + MoveDist * Sin(r[1].direction)]_vars

\* a robot 3 from the wall and facing it has executed move_forward and has not
\* moved
C15_BlockedMove ==
    /\ arena_size = 51
    /\ robot1.last_action = "move_forward"
    /\ step = 1
    /\ robot1.direction = 0
    /\ robot1.x = Fx(48)

\* ---- C16
\* C16: shoot with ammo 0 changes nothing; otherwise it consumes exactly 1 ammo
\* and the opponent loses 20 health if and only if the bearing of the opponent
\* minus the heading, wrapped to [0, 2*pi), is below pi/8 and the distance is
\* below 50.  A at (60,100) heading 0 shooting at B at (100,100): B goes from
\* 100 to 80 and A from 50 to 49 rounds.
C16_Shoot ==
    [][\A t \in {<<1, action1', robot1, robot2, robot1', robot2'>>,
                  <<2, action2', robot2, robot1, robot2', robot1'>>} :
          (side' = t[1] /\ t[2] = "shoot") =>
              LET self == t[3]
                  opponent == t[4]
                  dx == opponent.x - self.x
                  dy == opponent.y - self.y
                  in_cone == \E w \in 0..(TurnStep - 1) :
                                 (self.direction + w) % TwoPi = Atan2(dy, dx)
                  in_range == dx * dx + dy * dy < 5000 * 5000
                  hit == in_cone /\ in_range
              IN  /\ self.ammo = 0 =>
                        /\ t[5] = [self EXCEPT !.last_action = "shoot",
                                               !.sensors = t[5].sensors]
                        /\ t[6] = opponent
                  /\ self.ammo > 0 =>
                        /\ t[5].ammo = self.ammo - 1
                        /\ t[6].health = IF hit THEN opponent.health - 20
                                                 ELSE opponent.health
                  /\ (self.x = 6000 /\ self.y = 10000 /\ self.direction = 0
                        /\ self.ammo = 50 /\ opponent.x = 10000 /\ opponent.y = 10000
                        /\ opponent.health = 100) =>
                        t[6].health = 80 /\ t[5].ammo = 49]_vars

\* A at (60,100) heading 0 has shot at B at (100,100)
C16_Witness ==
    /\ side = 1
    /\ step = 1
    /\ action1 = "shoot"
    /\ robot1.x = 6000 /\ robot1.y = 10000 /\ robot1.direction = 0
    /\ robot2.x = 10000 /\ robot2.y = 10000
    /\ robot2.health = 80
    /\ robot1.ammo = 49

\* ---- C17
\* C17: the matches of a round robin share no mutable state, so that run on
\* a worker pool, in any interleaving, they leave every individual with the
\* win count the same match outcomes give it sequentially: its number of
\* wins.
C17_PoolAsSequential ==
    pc = "returned" =>
        \A id \in Range(ev_pop1) \cup Range(ev_pop2) : heap[id].values = <<wins[id]>>

\* the same for a pool of a single worker, which runs the matches one after
\* the other
C17_OneWorker == Len(pool) = 1 => C17_PoolAsSequential

\* two workers have read the fitness of the same individual before either has
\* written it
C17_BothRead ==
    /\ Len(pool) = 2
    /\ pool[1].phase = "read"
    /\ pool[2].phase = "read"
    /\ pool[1].credited = pool[2].credited
    /\ pool[1].seen = pool[2].seen

\* ---- C18
\* C18: in a match the health of a robot is one of 100, 80, 60, 40, 20, 0 and
\* never negative; a robot loses at most 20 in a tick (only the one action of
\* its opponent takes health from it, and takes 20); a match with a step
\* budget below 5 credits no win.
C18_HealthLevels ==
    /\ [](\A r \in {robot1, robot2} : \E n \in 0..5 : r.health = 20 * n)
    /\ [][/\ pc = "act1" => /\ robot1'.health = robot1.health
                            /\ robot2'.health \in {robot2.health, robot2.health - 20}
          /\ pc = "act2" => /\ robot2'.health = robot2.health
                            /\ robot1'.health \in {robot1.health, robot1.health - 20}
          /\ pc \in {"sense", "decide", "check", "credit"} =>
                 robot1'.health = robot1.health /\ robot2'.health = robot2.health]_vars
    /\ [][pc = "credit" /\ max_steps < 5 => heap' = heap]_vars

\* a match with a budget of 4 in which robot1 hit with every shot has been
\* scored: robot2 is left with 20 and nobody was credited
C18_Witness ==
    /\ pc = "returned"
    /\ max_steps = 4
    /\ robot2.health = 20
    /\ robot1.health = 100
    /\ heap[1].values = <<0>>
    /\ heap[2].values = <<0>>

\* ---- C19
\* C19: an action changes only the fields that are its own: move_forward the
\* position of the actor, a turn its heading (which stays in [0, 2*pi)), shoot
\* its ammo and the health of the opponent, reload its ammo, do_nothing
\* nothing; every action records itself as last_action; no action changes the
\* health of the actor or the position, heading or ammo of the opponent.
C19_ActionFrames ==
    [][\A t \in {<<1, action1', robot1, robot2, robot1', robot2'>>,
                  <<2, action2', robot2, robot1, robot2', robot1'>>} :
          side' = t[1] =>
              LET action == t[2]
                  self == t[3]
                  opponent == t[4]
                  self2 == t[5]
                  opponent2 == t[6]
                  same_place == self2.x = self.x /\ self2.y = self.y
                  same_heading == self2.direction = self.direction
                  same_ammo == self2.ammo = self.ammo
              IN  /\ self2.last_action = action
                  /\ self2.health = self.health
                  /\ [opponent2 EXCEPT !.health = opponent.health] = opponent
                  /\ action # "shoot" => opponent2.health = opponent.health
                  /\ action = "move_forward" => same_heading /\ same_ammo
                  /\ action = "turn_left" =>
                        /\ same_place /\ same_ammo
                        /\ self2.direction = IF self.direction = 0 THEN 15
                                              ELSE self.direction - 1
                  /\ action = "turn_right" =>
                        /\ same_place /\ same_ammo
                        /\ self2.direction = IF self.direction = 15 THEN 0
                                              ELSE self.direction + 1
                  /\ action = "shoot" => same_place /\ same_heading
                  /\ action = "reload" => same_place /\ same_heading
                  /\ action = "do_nothing" => same_place /\ same_heading /\ same_ammo
                  /\ self2.direction \in 0..15]_vars

\* a robot heading 0 has turned left: its heading has wrapped to 15*pi/8
C19_Witness ==
    /\ side = 1
    /\ step = 1
    /\ action1 = "turn_left"
    /\ robot1.direction = 15
    /\ robot1.x = Fx(60)
    /\ robot1.ammo = DefaultAmmo
    /\ robot2.health = DefaultHealth

\* ---- C20
\* C20: crossover and mutation act on clones only: from the selection to the
\* evaluation of the offspring no step of a generation changes the tree or the
\* fitness of an individual of the two populations, and once cloned the
\* offspring are pairwise distinct objects, none of them a parent, even when
\* one parent was selected several times.
C20_ClonesOnly ==
    /\ [](LET evaluating == ret = "replace" /\ pc \in {"init_fitness", "compete"}
              cloned == pc \in {"mate", "mutate", "evaluate", "replace"} \/ evaluating
              pool12 == offspring1 \o offspring2
          IN  cloned =>
                 /\ \A a, b \in DOMAIN pool12 : a # b => pool12[a] # pool12[b]
                 /\ \A a \in DOMAIN pool12 :
                        pool12[a] \notin Range(pop1) \cup Range(pop2))
    /\ [][LET evaluating == ret = "replace" /\ pc \in {"init_fitness", "compete"}
              in_step == pc \in {"select", "clone", "mate", "mutate", "evaluate"}
                             \/ evaluating
          IN  in_step =>
                 \A id \in Range(pop1) \cup Range(pop2) :
                     id \in DOMAIN heap' /\ heap'[id] = heap[id]]_vars

\* of two offspring of the first population one has been mutated and the
\* other is still the copy of its parent, which has its tree and its fitness
C20_Witness ==
    /\ pc = "evaluate"
    /\ gen = 0
    /\ n_var = 1
    /\ Len(offspring1) = 2
    /\ heap[offspring1[1]].tree = <<Prim("neg"), Prim("neg"), Prim("neg"), Const(5)>>
    /\ heap[offspring1[1]].values = <<>>
    /\ heap[offspring1[2]].tree = Shooter
    /\ \E a \in DOMAIN pop1 :
          /\ heap[pop1[a]] = heap[offspring1[2]]
          /\ pop1[a] # offspring1[2]
          /\ heap[pop1[a]].values # <<>>
    /\ \A a \in DOMAIN pop1 : heap[pop1[a]].tree \in InitTrees

=============================================================================
